---------------------------- MODULE Spec2Model ----------------------------
(***************************************************************************)
(* Model of the quotation price-suggestion and risk-analysis services of   *)
(* the CotAi backend (backend/app/services/quotation.py) together with the *)
(* repository calls and model properties they rely on.                     *)
(*                                                                         *)
(* Numbers.  The services compute on Python floats.  The model computes on *)
(* exact numbers:                                                          *)
(*   - money that enters the system (unit_cost, unit_price, ...) is an     *)
(*     integer number of cents;                                            *)
(*   - percentages that enter the system are integers;                     *)
(*   - every derived quantity is an exact rational [num, den], den > 0,    *)
(*     kept in lowest terms;                                               *)
(*   - round(x, k) is rounding of the exact value to k decimals, ties to   *)
(*     even, as Python's round() does on exactly representable values.     *)
(***************************************************************************)
EXTENDS Integers, Sequences, FiniteSets, TLC

VARIABLES
    historical_prices,  \* rows of the historical_prices table
    suggestion,         \* the price suggestion the client is reading: request, rows read, result
    quotations,         \* the quotations table: id -> row (with its items) or NoRow
    risk_factors,       \* rows of the risk_factors table
    analysis            \* the analyze_risk invocations, one per request context

vars == <<historical_prices, suggestion, quotations, risk_factors, analysis>>

----------------------------------------------------------------------------
(* Optional values: None is the empty tuple, Some(v) the one-tuple.        *)

None == <<>>

Some(v) == <<v>>

IsNone(o) == o = <<>>

Val(o) == o[1]

\* Python truthiness of an Optional[float]: None and 0 are both falsy.
Truthy(o) == o # <<>> /\ o[1] # 0

\* Python's `o or d` on an Optional[float].
OrDefault(o, d) == IF Truthy(o) THEN o[1] ELSE d

----------------------------------------------------------------------------
(* Exact rationals.                                                        *)

Abs(n) == IF n < 0 THEN -n ELSE n

RECURSIVE GCD(_, _)
GCD(a, b) == IF b = 0 THEN a ELSE GCD(b, a % b)

\* n/d in lowest terms with a positive denominator (d # 0).
Rat(n, d) ==
    LET g == GCD(Abs(n), Abs(d))
        s == IF d < 0 THEN -1 ELSE 1
    IN  [num |-> s * (n \div g), den |-> s * (d \div g)]

RatInt(n) == [num |-> n, den |-> 1]

RatAdd(a, b) == Rat(a.num * b.den + b.num * a.den, a.den * b.den)

RatSub(a, b) == Rat(a.num * b.den - b.num * a.den, a.den * b.den)

RatMul(a, b) == Rat(a.num * b.num, a.den * b.den)

\* a / b, b # 0
RatDiv(a, b) == Rat(a.num * b.den, a.den * b.num)

RatLT(a, b) == a.num * b.den < b.num * a.den

RatLE(a, b) == a.num * b.den <= b.num * a.den

RatEq(a, b) == a.num * b.den = b.num * a.den

RatMax(a, b) == IF RatLT(a, b) THEN b ELSE a

\* n/d (d > 0) rounded to the nearest integer, ties to even.
RoundHalfEven(n, d) ==
    LET q == n \div d
        r == n - q * d
    IN  IF 2 * r < d THEN q
        ELSE IF 2 * r > d THEN q + 1
        ELSE IF q % 2 = 0 THEN q ELSE q + 1

\* round(x, 2) of a rational x: the result as a rational with denominator | 100.
Round2(x) == Rat(RoundHalfEven(x.num * 100, x.den), 100)

\* round(x, 1)
Round1(x) == Rat(RoundHalfEven(x.num * 10, x.den), 10)

----------------------------------------------------------------------------
(* Text.  A string is a tuple of one-character strings, so that lower()    *)
(* and substring tests are computed rather than assumed.                   *)

UpperChars == <<"A", "B", "C", "D", "E", "F", "G", "H", "I", "J", "K", "L", "M",
                "N", "O", "P", "Q", "R", "S", "T", "U", "V", "W", "X", "Y", "Z">>

LowerChars == <<"a", "b", "c", "d", "e", "f", "g", "h", "i", "j", "k", "l", "m",
                "n", "o", "p", "q", "r", "s", "t", "u", "v", "w", "x", "y", "z">>

\* str.lower() on one character
LowerChar(c) ==
    IF \E i \in DOMAIN UpperChars : UpperChars[i] = c
    THEN LowerChars[CHOOSE i \in DOMAIN UpperChars : UpperChars[i] = c]
    ELSE c

\* str.lower()
Lower(s) == [i \in DOMAIN s |-> LowerChar(s[i])]

\* `sub in s`
Contains(s, sub) ==
    \E i \in 0..(Len(s) - Len(sub)) : SubSeq(s, i + 1, i + Len(sub)) = sub

\* SQL `column ILIKE '%pattern%'`
ILikeContains(column, pattern) == Contains(Lower(column), Lower(pattern))

----------------------------------------------------------------------------
(* Sequences of rationals.                                                 *)

\* A list given element by element, as one tuple.
List(f) == f \o <<>>

\* The place of each element in the sorted list (stable for equal elements).
SortRank(s) ==
    List([i \in DOMAIN s |->
            Cardinality({j \in DOMAIN s :
                \/ RatLT(s[j], s[i])
                \/ RatEq(s[j], s[i]) /\ j < i}) + 1])

\* The list whose rank[i]-th element is s[i].
Permute(s, rank) ==
    List([k \in DOMAIN s |-> s[CHOOSE i \in DOMAIN s : rank[i] = k]])

\* sorted(list)
Sorted(s) == Permute(s, SortRank(s))

\* s[lo] + ... + s[hi]
RECURSIVE SumRange(_, _, _)
SumRange(s, lo, hi) ==
    IF lo > hi THEN RatInt(0)
    ELSE IF lo = hi THEN s[lo]
    ELSE RatAdd(SumRange(s, lo, (lo + hi) \div 2),
                SumRange(s, (lo + hi) \div 2 + 1, hi))

\* sum(list)
SumRat(s) == SumRange(s, 1, Len(s))

\* min(list), max(list), statistics.mean(list) of a non-empty list
MinOf(s) == Sorted(s)[1]

MaxOf(s) == Sorted(s)[Len(s)]

Mean(s) == RatDiv(SumRat(s), RatInt(Len(s)))

MinInt(a, b) == IF a < b THEN a ELSE b

----------------------------------------------------------------------------
(* HistoricalPriceRepository                                               *)

\* The lookback window of suggest_price, in days.
LookbackDays == 365

\* Default `limit` of get_historical_prices.
DefaultLimit == 100

\* ORDER BY date_recorded DESC: youngest row first (stable for equal dates).
\* The place of each row in the ordered result.
AgeRank(s) ==
    List([i \in DOMAIN s |->
            Cardinality({j \in DOMAIN s :
                \/ s[j].age < s[i].age
                \/ s[j].age = s[i].age /\ j < i}) + 1])

OrderByDateDesc(s) == Permute(s, AgeRank(s))

\* get_historical_prices(item_name, from_date = now - max_age days, limit):
\* the name filter is skipped for an empty name; sku, source, customer_type,
\* region and to_date are not passed by the model's callers.
get_historical_prices(table, item_name, max_age, limit) ==
    LET Match(row) ==
            /\ (item_name # <<>> => ILikeContains(row.item_name, item_name))
            /\ row.age <= max_age
        ordered == OrderByDateDesc(SelectSeq(table, Match))
    IN  SubSeq(ordered, 1, MinInt(limit, Len(ordered)))

\* create_historical_price(price_data)
create_historical_price(table, row) == Append(table, row)

----------------------------------------------------------------------------
(* PriceSuggestionService.suggest_price                                    *)

\* min_price = unit_cost * (1 + (target_profit_margin or 30) / 100)
MinPrice(unit_cost, target_profit_margin) ==
    RatMul(unit_cost,
           RatAdd(RatInt(1),
                  RatDiv(RatInt(OrDefault(target_profit_margin, 30)), RatInt(100))))

\* Mutation of TargetPercentile: the percentiles of "low" and "high" exchanged.
TargetPercentileSwapped(competitive_level) ==
    IF competitive_level = "low" THEN 3
    ELSE IF competitive_level = "high" THEN 1
    ELSE 2

\* target_percentile, in quarters: 0.25, 0.75, and 0.5 for everything else
TargetPercentile(competitive_level) ==
    IF competitive_level = "low" THEN 1
    ELSE IF competitive_level = "high" THEN 3
    ELSE 2

\* index = min(int(len(sorted_prices) * target_percentile), len(sorted_prices) - 1),
\* 0-based
PercentileIndex(n, competitive_level) ==
    MinInt((n * TargetPercentile(competitive_level)) \div 4, n - 1)

\* target_price = sorted_prices[index]
TargetPrice(price_points, competitive_level) ==
    Sorted(price_points)[PercentileIndex(Len(price_points), competitive_level) + 1]

\* suggested_price = max(target_price, min_price), before rounding
SuggestedPrice(price_points, unit_cost, target_profit_margin, competitive_level) ==
    RatMax(TargetPrice(price_points, competitive_level),
           MinPrice(unit_cost, target_profit_margin))

\* actual_margin = ((suggested_price - unit_cost) / suggested_price) * 100;
\* defined for suggested_price # 0
ActualMargin(suggested_price, unit_cost) ==
    RatMul(RatDiv(RatSub(suggested_price, unit_cost), suggested_price), RatInt(100))

\* competitiveness_score, before rounding
CompetitivenessScore(suggested_price, historical_min, historical_max) ==
    IF RatEq(historical_max, historical_min) THEN RatInt(50)
    ELSE RatSub(RatInt(100),
                RatMul(RatDiv(RatSub(suggested_price, historical_min),
                              RatSub(historical_max, historical_min)),
                       RatInt(100)))

Strategy(competitive_level) ==
    IF competitive_level = "low" THEN "aggressive"
    ELSE IF competitive_level = "high" THEN "premium"
    ELSE "balanced"

\* The outcome of suggest_price on the rows the repository returned:
\* [outcome |-> "returned", response |-> the dict] or
\* [outcome |-> "ZeroDivisionError"] when line 112 divides by zero.
suggest_price(rows, unit_cost, target_profit_margin, competitive_level) ==
    IF rows = <<>> THEN
        [outcome |-> "returned",
         response |->
            [suggested_price |-> Round2(MinPrice(unit_cost, target_profit_margin)),
             price_source |-> "manual",
             competitiveness_score |-> RatInt(0),
             profit_margin |-> RatInt(OrDefault(target_profit_margin, 30)),
             historical_min |-> None,
             historical_max |-> None,
             historical_avg |-> None,
             explanation |-> [text |-> "no_historical_data",
                              strategy |-> "none",
                              adjusted |-> FALSE]]]
    ELSE
        LET price_points == List([i \in DOMAIN rows |-> rows[i].unit_price])
            historical_min == MinOf(price_points)
            historical_max == MaxOf(price_points)
            historical_avg == Mean(price_points)
            suggested_price ==
                SuggestedPrice(price_points, unit_cost, target_profit_margin,
                               competitive_level)
        IN  IF suggested_price.num = 0 THEN [outcome |-> "ZeroDivisionError"]
            ELSE
                LET actual_margin == ActualMargin(suggested_price, unit_cost)
                    competitiveness_score ==
                        CompetitivenessScore(suggested_price, historical_min,
                                             historical_max)
                IN  [outcome |-> "returned",
                     response |->
                        [suggested_price |-> Round2(suggested_price),
                         price_source |-> "historical",
                         competitiveness_score |-> Round1(competitiveness_score),
                         profit_margin |-> Round1(actual_margin),
                         historical_min |-> Some(Round2(historical_min)),
                         historical_max |-> Some(Round2(historical_max)),
                         historical_avg |-> Some(Round2(historical_avg)),
                         explanation |->
                            [text |-> "historical",
                             strategy |-> Strategy(competitive_level),
                             adjusted |->
                                RatLT(actual_margin,
                                      RatInt(OrDefault(target_profit_margin, 30)))]]]

----------------------------------------------------------------------------
(* QuotationRepository and RiskFactorRepository                            *)

\* A quotation id not issued yet, and the id of a deleted quotation: ids come
\* from a serial column and are not issued twice.
NoRow == [exists |-> FALSE, issued |-> FALSE]

DeletedRow == [exists |-> FALSE, issued |-> TRUE]

\* get_quotation_by_id(quotation_id, include_items=True): the row or None
get_quotation_by_id(table, quotation_id) ==
    IF quotation_id \in DOMAIN table /\ table[quotation_id].exists
    THEN Some(table[quotation_id])
    ELSE None

\* create_quotation: a new row, its risk columns NULL
create_quotation(table, quotation_id, data) ==
    [table EXCEPT ![quotation_id] =
        [exists |-> TRUE,
         issued |-> TRUE,
         target_profit_margin |-> data.target_profit_margin,
         delivery_terms |-> data.delivery_terms,
         items |-> data.items,
         risk_score |-> None,
         risk_level |-> None,
         risk_factors |-> None]]

\* Mutation of update_risk_analysis: a row that is not found is inserted.
update_risk_analysis_upsert(table, quotation_id, loaded, risk_score, risk_level, risk_factors_json) ==
    IF IsNone(get_quotation_by_id(table, quotation_id))
    THEN [table EXCEPT ![quotation_id] =
            [exists |-> TRUE,
             issued |-> TRUE,
             target_profit_margin |-> None,
             delivery_terms |-> None,
             items |-> <<>>,
             risk_score |-> Some(risk_score),
             risk_level |-> Some(risk_level),
             risk_factors |-> Some(risk_factors_json)]]
    ELSE [table EXCEPT ![quotation_id].risk_score = Some(risk_score),
                       ![quotation_id].risk_level = Some(risk_level),
                       ![quotation_id].risk_factors = Some(risk_factors_json)]

\* Mutation of update_risk_analysis: the UPDATE has no WHERE clause.
update_risk_analysis_every_row(table, quotation_id, loaded, risk_score, risk_level, risk_factors_json) ==
    IF IsNone(get_quotation_by_id(table, quotation_id)) THEN table
    ELSE [q \in DOMAIN table |->
            IF table[q].exists
            THEN [table[q] EXCEPT !.risk_score = Some(risk_score),
                                  !.risk_level = Some(risk_level),
                                  !.risk_factors = Some(risk_factors_json)]
            ELSE table[q]]

\* update_risk_analysis: nothing is written when the row is not found.
\* Otherwise the select returns the instance the request's session already
\* holds, `loaded`, with the column values analyze_risk read; the three
\* assignments mark as changed the attributes whose new value differs from
\* the loaded one, and the commit updates those columns only.  risk_factors
\* always differs: it carries analyzed_at, the time of this call.
update_risk_analysis(table, quotation_id, loaded, risk_score, risk_level, risk_factors_json) ==
    IF IsNone(get_quotation_by_id(table, quotation_id)) THEN table
    ELSE [table EXCEPT
            ![quotation_id].risk_score =
                IF loaded.risk_score = Some(risk_score) THEN @ ELSE Some(risk_score),
            ![quotation_id].risk_level =
                IF loaded.risk_level = Some(risk_level) THEN @ ELSE Some(risk_level),
            ![quotation_id].risk_factors = Some(risk_factors_json)]

\* delete_quotation (the items go with the row)
delete_quotation(table, quotation_id) ==
    IF IsNone(get_quotation_by_id(table, quotation_id)) THEN table
    ELSE [table EXCEPT ![quotation_id] = DeletedRow]

\* create_risk_factor: the id is the table's next serial number
create_risk_factor(table, factor_data) ==
    Append(table, [id |-> Len(table) + 1,
                   name |-> factor_data.name,
                   weight |-> factor_data.weight,
                   parameters |-> factor_data.parameters])

\* The factor names of the model in the order ORDER BY name gives them.
FactorNameOrder ==
    <<"Customer Payment History", "Delivery Timeline", "Market Volatility",
      "Price Competitiveness", "Profit Margin">>

NameRank(name) == CHOOSE i \in DOMAIN FactorNameOrder : FactorNameOrder[i] = name

RECURSIVE InsertByName(_, _)
InsertByName(row, s) ==
    IF s = <<>> THEN <<row>>
    ELSE IF NameRank(row.name) < NameRank(Head(s).name) THEN <<row>> \o s
    ELSE <<Head(s)>> \o InsertByName(row, Tail(s))

\* get_all_risk_factors: every row, ORDER BY name
RECURSIVE get_all_risk_factors(_)
get_all_risk_factors(table) ==
    IF table = <<>> THEN <<>>
    ELSE InsertByName(Head(table), get_all_risk_factors(Tail(table)))

----------------------------------------------------------------------------
(* Quotation and QuotationItem: the derived (hybrid) properties.           *)

\* QuotationItem.total_cost
ItemTotalCost(item) == RatMul(item.unit_cost, item.quantity)

\* QuotationItem.total_price: price after discount, plus tax
ItemTotalPrice(item) ==
    LET base_price == RatMul(item.unit_price, item.quantity)
        discount_amount ==
            RatMul(base_price, RatDiv(item.discount_percentage, RatInt(100)))
        price_after_discount == RatSub(base_price, discount_amount)
        tax_amount ==
            RatMul(price_after_discount, RatDiv(item.tax_percentage, RatInt(100)))
    IN  RatAdd(price_after_discount, tax_amount)

\* QuotationItem.is_competitive: None unless both prices are set and non-zero
is_competitive(item) ==
    IF ~IsNone(item.market_average_price)
       /\ Val(item.market_average_price).num # 0
       /\ item.unit_price.num # 0
    THEN Some(RatLE(item.unit_price,
                    RatMul(Val(item.market_average_price), Rat(105, 100))))
    ELSE None

\* Quotation.total_cost
TotalCost(quotation) ==
    SumRat([i \in DOMAIN quotation.items |-> ItemTotalCost(quotation.items[i])])

\* Quotation.total_price
TotalPrice(quotation) ==
    SumRat([i \in DOMAIN quotation.items |-> ItemTotalPrice(quotation.items[i])])

\* Quotation.profit
Profit(quotation) == RatSub(TotalPrice(quotation), TotalCost(quotation))

\* (profit / total_price) * 100 if total_price > 0, else 0
MarginPercentage(profit, total_price) ==
    IF RatLT(RatInt(0), total_price)
    THEN RatMul(RatDiv(profit, total_price), RatInt(100))
    ELSE RatInt(0)

\* Quotation.profit_margin_percentage
profit_margin_percentage(quotation) ==
    MarginPercentage(Profit(quotation), TotalPrice(quotation))

----------------------------------------------------------------------------
(* RiskAnalysisService                                                     *)

\* Mutation of determine_risk_level: the boundaries 25, 50 and 75 given to the
\* lower level (<= for <).
determine_risk_level_inclusive(risk_score) ==
    IF RatLE(risk_score, RatInt(25)) THEN "low"
    ELSE IF RatLE(risk_score, RatInt(50)) THEN "medium"
    ELSE IF RatLE(risk_score, RatInt(75)) THEN "high"
    ELSE "critical"

\* _determine_risk_level
determine_risk_level(risk_score) ==
    IF RatLT(risk_score, RatInt(25)) THEN "low"
    ELSE IF RatLT(risk_score, RatInt(50)) THEN "medium"
    ELSE IF RatLT(risk_score, RatInt(75)) THEN "high"
    ELSE "critical"

\* dict.get(key, default) on a JSON object modelled as a function
DictGet(dict, key, default) == IF key \in DOMAIN dict THEN dict[key] ELSE default

EmptyDict == [k \in {} |-> RatInt(0)]

\* params = risk_factor.parameters or {}
Params(risk_factor) ==
    IF IsNone(risk_factor.parameters) THEN EmptyDict ELSE Val(risk_factor.parameters)

RushKeywords ==
    {<<"u", "r", "g", "e", "n", "t">>,
     <<"r", "u", "s", "h">>,
     <<"i", "m", "m", "e", "d", "i", "a", "t", "e">>,
     <<"a", "s", "a", "p">>,
     <<"e", "x", "p", "r", "e", "s", "s">>}

\* Mutation of ProfitMarginFactor: the interpolation added to 100 instead of
\* subtracted from it.
ProfitMarginFactorSignSlip(target_margin, actual_margin, min_acceptable, target_acceptable) ==
        IF RatLT(actual_margin, min_acceptable) THEN
            [score |-> RatInt(100),
             description |-> "below_minimum_acceptable",
             details |-> [actual_margin |-> actual_margin,
                          target_margin |-> target_margin,
                          min_acceptable |-> min_acceptable]]
        ELSE IF RatLT(actual_margin, target_margin) THEN
            LET normalized == RatDiv(RatSub(actual_margin, min_acceptable),
                                     RatSub(target_margin, min_acceptable))
            IN  [score |-> RatAdd(RatInt(100), RatMul(normalized, RatInt(60))),
                 description |-> "below_target",
                 details |-> [actual_margin |-> actual_margin,
                              target_margin |-> target_margin]]
        ELSE
            [score |-> RatInt(0),
             description |-> "meets_or_exceeds_target",
             details |-> [actual_margin |-> actual_margin,
                          target_margin |-> target_margin]]

\* Mutation of ProfitMarginFactor: the interpolation spans 40 points (down to
\* 60) instead of 60 (down to 40).
ProfitMarginFactorSpan40(target_margin, actual_margin, min_acceptable, target_acceptable) ==
        IF RatLT(actual_margin, min_acceptable) THEN
            [score |-> RatInt(100),
             description |-> "below_minimum_acceptable",
             details |-> [actual_margin |-> actual_margin,
                          target_margin |-> target_margin,
                          min_acceptable |-> min_acceptable]]
        ELSE IF RatLT(actual_margin, target_margin) THEN
            LET normalized == RatDiv(RatSub(actual_margin, min_acceptable),
                                     RatSub(target_margin, min_acceptable))
            IN  [score |-> RatSub(RatInt(100), RatMul(normalized, RatInt(40))),
                 description |-> "below_target",
                 details |-> [actual_margin |-> actual_margin,
                              target_margin |-> target_margin]]
        ELSE
            [score |-> RatInt(0),
             description |-> "meets_or_exceeds_target",
             details |-> [actual_margin |-> actual_margin,
                          target_margin |-> target_margin]]

\* The "Profit Margin" branch from its four locals: [score, description,
\* details].  The upper threshold is target_margin, the quotation's own
\* target_profit_margin (or 30); target_acceptable, the factor's "target_margin"
\* parameter, is read on line 273 and not used.
ProfitMarginFactor(target_margin, actual_margin, min_acceptable, target_acceptable) ==
        IF RatLT(actual_margin, min_acceptable) THEN
            [score |-> RatInt(100),
             description |-> "below_minimum_acceptable",
             details |-> [actual_margin |-> actual_margin,
                          target_margin |-> target_margin,
                          min_acceptable |-> min_acceptable]]
        ELSE IF RatLT(actual_margin, target_margin) THEN
            LET normalized == RatDiv(RatSub(actual_margin, min_acceptable),
                                     RatSub(target_margin, min_acceptable))
            IN  [score |-> RatSub(RatInt(100), RatMul(normalized, RatInt(60))),
                 description |-> "below_target",
                 details |-> [actual_margin |-> actual_margin,
                              target_margin |-> target_margin]]
        ELSE
            [score |-> RatInt(0),
             description |-> "meets_or_exceeds_target",
             details |-> [actual_margin |-> actual_margin,
                          target_margin |-> target_margin]]

\* The "Profit Margin" branch: the locals of lines 268-273
ProfitMargin(quotation, params) ==
    ProfitMarginFactor(RatInt(OrDefault(quotation.target_profit_margin, 30)),
                       profit_margin_percentage(quotation),
                       DictGet(params, "min_acceptable_margin", RatInt(15)),
                       DictGet(params, "target_margin", RatInt(30)))

\* The "Price Competitiveness" branch
PriceCompetitivenessFactor(quotation) ==
    IF quotation.items = <<>> THEN
        [score |-> RatInt(50), description |-> "no_items", details |-> EmptyDict]
    ELSE
        LET items == quotation.items
            HasMarket(i) ==
                /\ ~IsNone(items[i].market_average_price)
                /\ Val(items[i].market_average_price).num # 0
            competitive_items ==
                Cardinality({i \in DOMAIN items :
                                HasMarket(i) /\ is_competitive(items[i]) = Some(TRUE)})
            uncompetitive_items ==
                Cardinality({i \in DOMAIN items :
                                HasMarket(i) /\ is_competitive(items[i]) # Some(TRUE)})
            no_market_data == Cardinality({i \in DOMAIN items : ~HasMarket(i)})
            total_items == Len(items)
        IN  IF total_items = no_market_data THEN
                [score |-> RatInt(50), description |-> "no_market_data",
                 details |-> EmptyDict]
            ELSE
                LET items_with_data == total_items - no_market_data
                    competitive_ratio ==
                        IF items_with_data > 0
                        THEN Rat(competitive_items, items_with_data)
                        ELSE RatInt(0)
                IN  [score |-> RatSub(RatInt(100),
                                      RatMul(competitive_ratio, RatInt(100))),
                     description |->
                        IF uncompetitive_items > 0 THEN "priced_above_market"
                        ELSE "all_competitive",
                     details |-> [competitive_items |-> RatInt(competitive_items),
                                  uncompetitive_items |-> RatInt(uncompetitive_items),
                                  no_market_data |-> RatInt(no_market_data)]]

\* Mutation of DeliveryTimelineFactor: the keywords are looked up in
\* delivery_terms as written, without lower().
DeliveryTimelineFactorCaseSensitive(quotation) ==
    IF ~IsNone(quotation.delivery_terms) /\ Val(quotation.delivery_terms) # <<>> THEN
        IF \E keyword \in RushKeywords :
                Contains(Val(quotation.delivery_terms), keyword)
        THEN [score |-> RatInt(80), description |-> "rush_delivery",
              details |-> EmptyDict]
        ELSE [score |-> RatInt(20), description |-> "standard_delivery",
              details |-> EmptyDict]
    ELSE [score |-> RatInt(50), description |-> "no_delivery_terms",
          details |-> EmptyDict]

\* The "Delivery Timeline" branch; an empty delivery_terms string is falsy
DeliveryTimelineFactor(quotation) ==
    IF ~IsNone(quotation.delivery_terms) /\ Val(quotation.delivery_terms) # <<>> THEN
        IF \E keyword \in RushKeywords :
                Contains(Lower(Val(quotation.delivery_terms)), keyword)
        THEN [score |-> RatInt(80), description |-> "rush_delivery",
              details |-> EmptyDict]
        ELSE [score |-> RatInt(20), description |-> "standard_delivery",
              details |-> EmptyDict]
    ELSE [score |-> RatInt(50), description |-> "no_delivery_terms",
          details |-> EmptyDict]

\* Mutation of FactorBranch: the payment-history placeholder scores 60 once
\* the quotation carries an earlier analysis.
FactorBranchRemembering(quotation, risk_factor) ==
    IF risk_factor.name = "Profit Margin"
        THEN ProfitMargin(quotation, Params(risk_factor))
    ELSE IF risk_factor.name = "Price Competitiveness"
        THEN PriceCompetitivenessFactor(quotation)
    ELSE IF risk_factor.name = "Customer Payment History"
        THEN [score |-> IF IsNone(quotation.risk_score) THEN RatInt(50) ELSE RatInt(60),
              description |-> "payment_history_not_implemented",
              details |-> EmptyDict]
    ELSE IF risk_factor.name = "Delivery Timeline"
        THEN DeliveryTimelineFactor(quotation)
    ELSE [score |-> RatInt(0), description |-> "factor_description",
          details |-> EmptyDict]

\* Mutation of FactorBranch: the payment-history placeholder scores 20.
FactorBranchPaymentLow(quotation, risk_factor) ==
    IF risk_factor.name = "Profit Margin"
        THEN ProfitMargin(quotation, Params(risk_factor))
    ELSE IF risk_factor.name = "Price Competitiveness"
        THEN PriceCompetitivenessFactor(quotation)
    ELSE IF risk_factor.name = "Customer Payment History"
        THEN [score |-> RatInt(20),
              description |-> "payment_history_not_implemented",
              details |-> EmptyDict]
    ELSE IF risk_factor.name = "Delivery Timeline"
        THEN DeliveryTimelineFactor(quotation)
    ELSE [score |-> RatInt(0), description |-> "factor_description",
          details |-> EmptyDict]

\* The branch of _calculate_risk_factor chosen by the factor's name; a name that
\* matches no branch keeps the initial score 0 and the factor's own description.
FactorBranch(quotation, risk_factor) ==
    IF risk_factor.name = "Profit Margin"
        THEN ProfitMargin(quotation, Params(risk_factor))
    ELSE IF risk_factor.name = "Price Competitiveness"
        THEN PriceCompetitivenessFactor(quotation)
    ELSE IF risk_factor.name = "Customer Payment History"
        THEN [score |-> RatInt(50), description |-> "payment_history_not_implemented",
              details |-> EmptyDict]
    ELSE IF risk_factor.name = "Delivery Timeline"
        THEN DeliveryTimelineFactor(quotation)
    ELSE [score |-> RatInt(0), description |-> "factor_description",
          details |-> EmptyDict]

\* The dictionary _calculate_risk_factor returns, from the branch's outcome
FactorResult(risk_factor, branch) ==
    [factor_id |-> risk_factor.id,
     name |-> risk_factor.name,
     score |-> branch.score,
     level |-> determine_risk_level(branch.score),
     description |-> branch.description,
     weight |-> risk_factor.weight,
     details |-> branch.details]

\* _calculate_risk_factor
calculate_risk_factor(quotation, risk_factor) ==
    FactorResult(risk_factor, FactorBranch(quotation, risk_factor))

\* total_weight = sum(f["weight"] for f in factor_results)
TotalWeight(factor_results) ==
    SumRat([i \in DOMAIN factor_results |-> factor_results[i].weight])

\* sum(f["score"] * f["weight"] for f in factor_results)
WeightedSum(factor_results) ==
    SumRat([i \in DOMAIN factor_results |->
                RatMul(factor_results[i].score, factor_results[i].weight)])

\* Mutation of OverallScore: the plain average of the scores, weights ignored.
OverallScoreUnweighted(factor_results) ==
    IF RatLT(RatInt(0), TotalWeight(factor_results))
    THEN RatDiv(SumRat([i \in DOMAIN factor_results |-> factor_results[i].score]),
                RatInt(Len(factor_results)))
    ELSE RatInt(0)

\* overall_score: the weighted average, 0 unless the total weight is positive
OverallScore(factor_results) ==
    IF RatLT(RatInt(0), TotalWeight(factor_results))
    THEN RatDiv(WeightedSum(factor_results), TotalWeight(factor_results))
    ELSE RatInt(0)

\* Mutation of FirstScoresAbove50: a score of exactly 50 counts too.
FirstScoresAtLeast50(factor_results, name) ==
    /\ \E i \in DOMAIN factor_results : factor_results[i].name = name
    /\ LET first == CHOOSE i \in DOMAIN factor_results :
                        /\ factor_results[i].name = name
                        /\ \A j \in 1..(i - 1) : factor_results[j].name # name
       IN  RatLE(RatInt(50), factor_results[first].score)

\* next((f for f in factor_results if f["name"] == name), None) and score > 50
FirstScoresAbove50(factor_results, name) ==
    /\ \E i \in DOMAIN factor_results : factor_results[i].name = name
    /\ LET first == CHOOSE i \in DOMAIN factor_results :
                        /\ factor_results[i].name = name
                        /\ \A j \in 1..(i - 1) : factor_results[j].name # name
       IN  RatLT(RatInt(50), factor_results[first].score)

Recommendation(kind) == [kind |-> kind, names |-> <<>>]

\* Mutation of generate_recommendations: the catch-all recommendation covers
\* the CRITICAL factors only.
generate_recommendations_critical_only(factor_results) ==
    LET IsHigh(f) == f.level \in {"critical"}
        high_risk_factors == SelectSeq(factor_results, IsHigh)
    IN  (IF FirstScoresAbove50(factor_results, "Profit Margin")
            THEN <<Recommendation("increase_prices_or_reduce_costs")>> ELSE <<>>)
        \o (IF FirstScoresAbove50(factor_results, "Price Competitiveness")
            THEN <<Recommendation("review_pricing_strategy")>> ELSE <<>>)
        \o (IF FirstScoresAbove50(factor_results, "Customer Payment History")
            THEN <<Recommendation("review_payment_history")>> ELSE <<>>)
        \o (IF FirstScoresAbove50(factor_results, "Delivery Timeline")
            THEN <<Recommendation("rush_delivery_resources")>> ELSE <<>>)
        \o (IF high_risk_factors # <<>>
            THEN <<[kind |-> "review_high_risk_factors",
                    names |-> [i \in DOMAIN high_risk_factors |->
                                    high_risk_factors[i].name]]>>
            ELSE <<>>)

\* _generate_recommendations
generate_recommendations(factor_results) ==
    LET IsHigh(f) == f.level \in {"high", "critical"}
        high_risk_factors == SelectSeq(factor_results, IsHigh)
    IN  (IF FirstScoresAbove50(factor_results, "Profit Margin")
            THEN <<Recommendation("increase_prices_or_reduce_costs")>> ELSE <<>>)
        \o (IF FirstScoresAbove50(factor_results, "Price Competitiveness")
            THEN <<Recommendation("review_pricing_strategy")>> ELSE <<>>)
        \o (IF FirstScoresAbove50(factor_results, "Customer Payment History")
            THEN <<Recommendation("review_payment_history")>> ELSE <<>>)
        \o (IF FirstScoresAbove50(factor_results, "Delivery Timeline")
            THEN <<Recommendation("rush_delivery_resources")>> ELSE <<>>)
        \o (IF high_risk_factors # <<>>
            THEN <<[kind |-> "review_high_risk_factors",
                    names |-> [i \in DOMAIN high_risk_factors |->
                                    high_risk_factors[i].name]]>>
            ELSE <<>>)

\* Mutation of DefaultResponse: the default risk level is MEDIUM.
DefaultResponseMedium(quotation_id) ==
    [quotation_id |-> quotation_id,
     overall_risk_score |-> RatInt(0),
     risk_level |-> "medium",
     factors |-> <<>>,
     recommendations |-> <<>>]

\* The default response of analyze_risk
DefaultResponse(quotation_id) ==
    [quotation_id |-> quotation_id,
     overall_risk_score |-> RatInt(0),
     risk_level |-> "low",
     factors |-> <<>>,
     recommendations |-> <<>>]

\* Mutation of NoFactorsResponse: the default response, without the
\* recommendation.
NoFactorsResponseSilent(quotation_id) == DefaultResponse(quotation_id)

\* The response when no risk factors are defined (lines 190-194)
NoFactorsResponse(quotation_id) ==
    [DefaultResponse(quotation_id) EXCEPT
        !.recommendations = <<Recommendation("no_risk_factors_defined")>>]

\* analyze_risk from the loaded quotation and risk factors (both non-empty) up
\* to the write-back: the response, and the arguments of update_risk_analysis.
\* The bundle's analyzed_at, the wall-clock time of the call, is left out.
AnalysisBundle(quotation_id, factor_results, overall_score, risk_level, recommendations) ==
    [response |->
        [quotation_id |-> quotation_id,
         overall_risk_score |-> Round1(overall_score),
         risk_level |-> risk_level,
         factors |-> factor_results,
         recommendations |-> recommendations],
     update |->
        [risk_score |-> overall_score,
         risk_level |-> risk_level,
         risk_factors |-> [factors |-> factor_results,
                           recommendations |-> recommendations]]]

\* The risk level and the recommendations, from the overall score
AnalysisScored(quotation_id, factor_results, overall_score) ==
    AnalysisBundle(quotation_id, factor_results, overall_score,
                   determine_risk_level(overall_score),
                   generate_recommendations(factor_results))

\* The overall score, from the factor results
AnalysisFrom(quotation_id, factor_results) ==
    AnalysisScored(quotation_id, factor_results, OverallScore(factor_results))

\* Mutation of CalculateFactors: the results in the reverse of the order the
\* repository returned the factors in.
CalculateFactorsReversed(quotation, factors) ==
    [i \in DOMAIN factors |->
        calculate_risk_factor(quotation, factors[Len(factors) + 1 - i])]

\* The loop over the risk factors, in the order the repository returned them
CalculateFactors(quotation, factors) ==
    [i \in DOMAIN factors |-> calculate_risk_factor(quotation, factors[i])]

\* analyze_risk, from the loaded quotation and risk factors to the write-back
AnalysisOf(quotation_id, quotation, factors) ==
    AnalysisFrom(quotation_id, CalculateFactors(quotation, factors))

----------------------------------------------------------------------------
(* Bounds and input domains of the price-suggestion model.                 *)

\* Most rows the historical_prices table holds.
MaxHistory == 3

NameBolt == <<"B", "o", "l", "t">>

NameBoltM8 == <<"b", "o", "l", "t", " ", "M", "8">>

NameNut == <<"n", "u", "t">>

\* Rows a client may record: four bolt prices (0.00 to 1.50) recorded 30 days
\* ago, one bolt price recorded 400 days ago (outside the lookback window), and
\* one price of another item recorded 30 days ago.
HistoryRows ==
    {[item_name |-> NameBoltM8, unit_price |-> Rat(c, 100), age |-> 30] :
        c \in {0, 105, 124, 150}}
    \cup {[item_name |-> NameBoltM8, unit_price |-> Rat(90, 100), age |-> 400],
          [item_name |-> NameNut, unit_price |-> Rat(20, 100), age |-> 30]}

UnitCosts == {RatInt(0), Rat(1, 100), RatInt(1)}

TargetMargins == {None, Some(0), Some(20), Some(30)}

CompetitiveLevels == {"low", "medium", "high", "premium"}

RequestNames == {NameBolt, NameNut}

NoSuggestion == [called |-> FALSE]

----------------------------------------------------------------------------
(* Bounds and input domains of the risk-analysis model.                    *)

\* Most items of a quotation.
MaxItems == 2

\* Most rows the risk_factors table holds.
MaxFactors == 2

QuotationIds == {1}

Procs == {1}

Item(unit_cost, unit_price, quantity, discount, market) ==
    [unit_cost |-> RatInt(unit_cost),
     unit_price |-> RatInt(unit_price),
     quantity |-> RatInt(quantity),
     tax_percentage |-> RatInt(0),
     discount_percentage |-> RatInt(discount),
     market_average_price |-> market]

\* Items with margins 15 %, 22.5 %, 10 % and 21.26 % (the last one sold by
\* two at a discount; alone it gets a "Profit Margin" score of 74.96); one
\* without market data, two within 5 % of the market average, one above it;
\* and an item left at the schema's default unit_cost and unit_price (0.0)
\* with a market average.
ItemChoices ==
    <<Item(34, 40, 1, 0, None),
      Item(31, 40, 1, 0, Some(RatInt(40))),
      Item(36, 40, 1, 0, Some(RatInt(30))),
      Item(7874, 12500, 2, 20, Some(RatInt(12500))),
      Item(0, 0, 1, 0, Some(RatInt(10)))>>

\* The item lists of the quotations created: every combination of up to
\* MaxItems different choices, each in one order (sums and counts over the
\* items do not depend on their order).
ItemLists ==
    UNION {{[i \in 1..n |-> ItemChoices[ix[i]]] :
                ix \in {f \in [1..n -> DOMAIN ItemChoices] :
                            \A i \in 1..(n - 1) : f[i] < f[i + 1]}} :
           n \in 0..MaxItems}

TermsUrgent ==
    <<"U", "R", "G", "E", "N", "T", " ", "d", "e", "l", "i", "v", "e", "r", "y">>

TermsStandard ==
    <<"S", "t", "a", "n", "d", "a", "r", "d", " ", "5", "-", "7", " ", "d", "a",
      "y", "s">>

\* target_profit_margin and delivery_terms of the quotations created
QuotationHeaders ==
    {[target_profit_margin |-> None, delivery_terms |-> None],
     [target_profit_margin |-> Some(20), delivery_terms |-> Some(TermsUrgent)],
     [target_profit_margin |-> Some(10), delivery_terms |-> Some(TermsStandard)]}

QuotationData ==
    {[target_profit_margin |-> h.target_profit_margin,
      delivery_terms |-> h.delivery_terms,
      items |-> items] : h \in QuotationHeaders, items \in ItemLists}

MarginParams(min_acceptable, target) ==
    [k \in {"min_acceptable_margin", "target_margin"} |->
        IF k = "min_acceptable_margin" THEN RatInt(min_acceptable)
        ELSE RatInt(target)]

Factor(name, weight, parameters) ==
    [name |-> name, weight |-> RatInt(weight), parameters |-> parameters]

\* Risk factors an administrator may configure: the four names the service
\* recognizes (one of them with weight 0) and one it does not.
FactorChoices ==
    {Factor("Profit Margin", 2, Some(MarginParams(15, 30))),
     Factor("Price Competitiveness", 1, None),
     Factor("Customer Payment History", 0, None),
     Factor("Delivery Timeline", 1, None),
     Factor("Market Volatility", 1, None)}

Idle == [pc |-> "idle"]

----------------------------------------------------------------------------
(* Initial state: empty tables, no call made.                              *)

Init ==
    /\ historical_prices = <<>>
    /\ suggestion = NoSuggestion
    /\ quotations = [q \in QuotationIds |-> NoRow]
    /\ risk_factors = <<>>
    /\ analysis = [p \in Procs |-> Idle]

----------------------------------------------------------------------------
(* Actions of the price-suggestion model.                                  *)

\* The client of the price endpoints sends one request at a time: it reads
\* the response of a request before it sends the next.
ClientReady == ~suggestion.called

\* A client records a historical price.
CreateHistoricalPrice(row) ==
    /\ ClientReady
    /\ Len(historical_prices) < MaxHistory
    /\ historical_prices' = create_historical_price(historical_prices, row)
    /\ UNCHANGED <<suggestion, quotations, risk_factors, analysis>>

\* POST /price-suggestion: the whole handler, repository read included.
SuggestPrice(item_name, unit_cost, target_profit_margin, competitive_level) ==
    LET rows == get_historical_prices(historical_prices, item_name,
                                      LookbackDays, DefaultLimit)
    IN  /\ ClientReady
        /\ suggestion' =
            [called |-> TRUE,
             request |-> [item_name |-> item_name,
                          unit_cost |-> unit_cost,
                          target_profit_margin |-> target_profit_margin,
                          competitive_level |-> competitive_level],
             rows |-> rows,
             result |-> suggest_price(rows, unit_cost, target_profit_margin,
                                      competitive_level)]
        /\ UNCHANGED <<historical_prices, quotations, risk_factors, analysis>>

\* The client has read the suggestion.
ReadSuggestion ==
    /\ suggestion.called
    /\ suggestion' = NoSuggestion
    /\ UNCHANGED <<historical_prices, quotations, risk_factors, analysis>>

NextPrice ==
    \/ \E row \in HistoryRows : CreateHistoricalPrice(row)
    \/ \E n \in RequestNames, c \in UnitCosts, m \in TargetMargins,
          l \in CompetitiveLevels : SuggestPrice(n, c, m, l)
    \/ ReadSuggestion

SpecPrice == Init /\ [][NextPrice]_vars

----------------------------------------------------------------------------
(* The price-suggestion model over a long price history: the table holds   *)
(* one bolt price recorded 200 days ago and then 99 or 100 bolt prices     *)
(* recorded 30 days ago.                                                   *)

\* Most rows of the long history.
MaxLongHistory == 101

LongHistory(n, old_price) ==
    [i \in 1..n |->
        IF i = 1
        THEN [item_name |-> NameBoltM8, unit_price |-> old_price, age |-> 200]
        ELSE [item_name |-> NameBoltM8, unit_price |-> Rat(105, 100), age |-> 30]]

LongHistories ==
    {LongHistory(n, old_price) :
        n \in {MaxLongHistory - 1, MaxLongHistory},
        old_price \in {Rat(50, 100), RatInt(2)}}

InitLongHistory ==
    /\ historical_prices \in LongHistories
    /\ suggestion = NoSuggestion
    /\ quotations = [q \in QuotationIds |-> NoRow]
    /\ risk_factors = <<>>
    /\ analysis = [p \in Procs |-> Idle]

NextLongHistory ==
    \/ \E n \in RequestNames, c \in UnitCosts, m \in TargetMargins,
          l \in CompetitiveLevels : SuggestPrice(n, c, m, l)
    \/ ReadSuggestion

SpecLongHistory == InitLongHistory /\ [][NextLongHistory]_vars

----------------------------------------------------------------------------
(* Actions of the risk-analysis model.  analyze_risk awaits the repository *)
(* three times; other requests run between its steps.                      *)

\* A quotation is created with its items, under an id not issued before.
CreateQuotation(quotation_id, data) ==
    /\ quotations[quotation_id] = NoRow
    /\ quotations' = create_quotation(quotations, quotation_id, data)
    /\ UNCHANGED <<historical_prices, suggestion, risk_factors, analysis>>

\* DELETE /quotations/{id}
DeleteQuotation(quotation_id) ==
    /\ ~IsNone(get_quotation_by_id(quotations, quotation_id))
    /\ quotations' = delete_quotation(quotations, quotation_id)
    /\ UNCHANGED <<historical_prices, suggestion, risk_factors, analysis>>

\* An administrator configures a risk factor; names are unique.
CreateRiskFactor(factor_data) ==
    /\ Len(risk_factors) < MaxFactors
    /\ \A i \in DOMAIN risk_factors : risk_factors[i].name # factor_data.name
    /\ risk_factors' = create_risk_factor(risk_factors, factor_data)
    /\ UNCHANGED <<historical_prices, suggestion, quotations, analysis>>

\* analyze_risk, lines 166-184: load the quotation; return the default
\* response if there is none.
AnalyzeLoadQuotation(p, quotation_id) ==
    /\ analysis[p].pc = "idle"
    /\ LET quotation == get_quotation_by_id(quotations, quotation_id)
       IN  analysis' = [analysis EXCEPT ![p] =
                IF IsNone(quotation)
                THEN [pc |-> "returned",
                      quotation_id |-> quotation_id,
                      found |-> FALSE,
                      factors |-> <<>>,
                      wrote |-> FALSE,
                      response |-> DefaultResponse(quotation_id)]
                ELSE [pc |-> "loaded",
                      quotation_id |-> quotation_id,
                      quotation |-> Val(quotation)]]
    /\ UNCHANGED <<historical_prices, suggestion, quotations, risk_factors>>

\* Mutation of AnalyzeCompute: with no risk factor configured the default
\* analysis is written back.
AnalyzeComputeStoringDefault(p) ==
    /\ analysis[p].pc = "loaded"
    /\ get_all_risk_factors(risk_factors) = <<>>
    /\ analysis' = [analysis EXCEPT ![p] =
            [pc |-> "returned",
             quotation_id |-> analysis[p].quotation_id,
             found |-> TRUE,
             factors |-> <<>>,
             wrote |-> FALSE,
             response |-> NoFactorsResponse(analysis[p].quotation_id)]]
    /\ quotations' = update_risk_analysis(quotations, analysis[p].quotation_id,
                                          analysis[p].quotation, RatInt(0), "low",
                                          [factors |-> <<>>, recommendations |-> <<>>])
    /\ UNCHANGED <<historical_prices, suggestion, risk_factors>>

\* analyze_risk, lines 186-227: load the risk factors; return if there are
\* none; otherwise score every factor and build the response.
AnalyzeCompute(p) ==
    /\ analysis[p].pc = "loaded"
    /\ LET factors == get_all_risk_factors(risk_factors)
           quotation_id == analysis[p].quotation_id
       IN  analysis' = [analysis EXCEPT ![p] =
                IF factors = <<>>
                THEN [pc |-> "returned",
                      quotation_id |-> quotation_id,
                      found |-> TRUE,
                      factors |-> factors,
                      wrote |-> FALSE,
                      response |-> NoFactorsResponse(quotation_id)]
                ELSE [pc |-> "computed",
                      quotation_id |-> quotation_id,
                      quotation |-> analysis[p].quotation,
                      factors |-> factors,
                      result |-> AnalysisOf(quotation_id, analysis[p].quotation,
                                            factors)]]
    /\ UNCHANGED <<historical_prices, suggestion, quotations, risk_factors>>

\* analyze_risk, lines 229-242: write the analysis back and return.
AnalyzeWriteBack(p) ==
    /\ analysis[p].pc = "computed"
    /\ LET update == analysis[p].result.update
           quotation_id == analysis[p].quotation_id
       IN  /\ quotations' = update_risk_analysis(quotations, quotation_id,
                                                 analysis[p].quotation,
                                                 update.risk_score,
                                                 update.risk_level,
                                                 update.risk_factors)
           /\ analysis' = [analysis EXCEPT ![p] =
                [pc |-> "returned",
                 quotation_id |-> quotation_id,
                 found |-> TRUE,
                 quotation |-> analysis[p].quotation,
                 factors |-> analysis[p].factors,
                 wrote |-> ~IsNone(get_quotation_by_id(quotations, quotation_id)),
                 response |-> analysis[p].result.response]]
    /\ UNCHANGED <<historical_prices, suggestion, risk_factors>>

\* The caller has read the response.
ReadAnalysis(p) ==
    /\ analysis[p].pc = "returned"
    /\ analysis' = [analysis EXCEPT ![p] = Idle]
    /\ UNCHANGED <<historical_prices, suggestion, quotations, risk_factors>>

NextRisk ==
    \/ \E q \in QuotationIds, data \in QuotationData : CreateQuotation(q, data)
    \/ \E q \in QuotationIds : DeleteQuotation(q)
    \/ \E f \in FactorChoices : CreateRiskFactor(f)
    \/ \E p \in Procs, q \in QuotationIds : AnalyzeLoadQuotation(p, q)
    \/ \E p \in Procs : AnalyzeCompute(p)
    \/ \E p \in Procs : AnalyzeWriteBack(p)
    \/ \E p \in Procs : ReadAnalysis(p)

SpecRisk == Init /\ [][NextRisk]_vars

----------------------------------------------------------------------------
(* Two workers serve analyze_risk requests at the same time over two       *)
(* quotation ids.  target[p] is the set of ids worker p is asked to        *)
(* analyse.                                                                *)

Workers == {1, 2}

WorkerQuotationIds == {1, 2}

\* The quotations and risk factors of the two-worker model.
WorkerQuotationData ==
    {[target_profit_margin |-> None,
      delivery_terms |-> Some(TermsUrgent),
      items |-> <<>>],
     [target_profit_margin |-> None,
      delivery_terms |-> Some(TermsStandard),
      items |-> <<Item(31, 40, 1, 0, Some(RatInt(40)))>>]}

WorkerFactorChoices ==
    {Factor("Delivery Timeline", 1, None),
     Factor("Market Volatility", 1, None),
     Factor("Profit Margin", 2, Some(MarginParams(15, 30)))}

InitWorkers ==
    /\ historical_prices = <<>>
    /\ suggestion = NoSuggestion
    /\ quotations = [q \in WorkerQuotationIds |-> NoRow]
    /\ risk_factors = <<>>
    /\ analysis = [p \in Workers |-> Idle]

NextWorkers(target) ==
    \/ \E q \in UNION {target[p] : p \in Workers}, data \in WorkerQuotationData :
          CreateQuotation(q, data)
    \/ \E f \in WorkerFactorChoices : CreateRiskFactor(f)
    \/ \E p \in Workers : \E q \in target[p] : AnalyzeLoadQuotation(p, q)
    \/ \E p \in Workers : AnalyzeCompute(p)
    \/ \E p \in Workers : AnalyzeWriteBack(p)
    \/ \E p \in Workers : ReadAnalysis(p)

\* Each worker analyses a quotation of its own.
TargetDifferent == [p \in Workers |-> {p}]

\* Both workers analyse quotation 1.
TargetSame == [p \in Workers |-> {1}]

NextDifferent == NextWorkers(TargetDifferent)

NextSame == NextWorkers(TargetSame)

SpecDifferent == InitWorkers /\ [][NextDifferent]_vars

SpecSame == InitWorkers /\ [][NextSame]_vars

----------------------------------------------------------------------------
(* Properties of suggest_price, stated on the suggestion the client reads. *)

Returned == suggestion.called /\ suggestion.result.outcome = "returned"

Request == suggestion.request

Response == suggestion.result.response

\* unit_cost * (1 + margin / 100) for a margin given as a number
MarginFloor(unit_cost, margin) ==
    RatMul(unit_cost, RatAdd(RatInt(1), Rat(margin, 100)))

\* C1: for every unit_cost >= 0, every target_profit_margin >= 0 and every
\* historical price list, the returned suggested_price is at least
\* unit_cost * (1 + target_profit_margin / 100).
C1_MarginFloor ==
    (/\ Returned
     /\ ~IsNone(Request.target_profit_margin)
     /\ Val(Request.target_profit_margin) >= 0)
    => RatLE(MarginFloor(Request.unit_cost, Val(Request.target_profit_margin)),
             Response.suggested_price)

\* C2: with a non-empty historical price list the returned
\* competitiveness_score lies between 0 and 100 inclusive.
C2_CompetitivenessInRange ==
    (Returned /\ suggestion.rows # <<>>)
    => /\ RatLE(RatInt(0), Response.competitiveness_score)
       /\ RatLE(Response.competitiveness_score, RatInt(100))

\* C3: with an empty historical price list and a target_profit_margin >= 0
\* (0 included) the call returns price_source MANUAL, competitiveness_score 0,
\* suggested_price round(unit_cost * (1 + margin / 100), 2) and profit_margin
\* equal to the margin passed.
C3_NoDataFallback ==
    (/\ suggestion.called
     /\ suggestion.rows = <<>>
     /\ ~IsNone(Request.target_profit_margin)
     /\ Val(Request.target_profit_margin) >= 0)
    => /\ suggestion.result.outcome = "returned"
       /\ Response.price_source = "manual"
       /\ RatEq(Response.competitiveness_score, RatInt(0))
       /\ RatEq(Response.suggested_price,
                Round2(MarginFloor(Request.unit_cost,
                                   Val(Request.target_profit_margin))))
       /\ RatEq(Response.profit_margin, RatInt(Val(Request.target_profit_margin)))

\* C4: suggest_price raises no exception for any unit_cost >= 0 and any
\* historical price list, the case suggested_price = 0 included.
C4_NeverRaises == suggestion.called => suggestion.result.outcome = "returned"

\* The outcome of the request the client made, had it named another level.
AtLevel(level) ==
    suggest_price(suggestion.rows, Request.unit_cost, Request.target_profit_margin,
                  level)

\* The price of line 109 (before rounding) for the client's request at a level.
RawAtLevel(level) ==
    SuggestedPrice([i \in DOMAIN suggestion.rows |-> suggestion.rows[i].unit_price],
                   Request.unit_cost, Request.target_profit_margin, level)

\* C5: for a fixed unit_cost, target_profit_margin and historical price set,
\* the suggested price for "low" is at most the one for "medium", which is at
\* most the one for "high": of the price computed and of the price returned
\* (whenever the three calls return).
C5_MonotonicLevels ==
    suggestion.called =>
        /\ suggestion.rows # <<>> =>
              /\ RatLE(RawAtLevel("low"), RawAtLevel("medium"))
              /\ RatLE(RawAtLevel("medium"), RawAtLevel("high"))
        /\ (\A l \in {"low", "medium", "high"} : AtLevel(l).outcome = "returned") =>
              /\ RatLE(AtLevel("low").response.suggested_price,
                       AtLevel("medium").response.suggested_price)
              /\ RatLE(AtLevel("medium").response.suggested_price,
                       AtLevel("high").response.suggested_price)

\* C5 witness: a request over several historical prices for which the three
\* levels return three different prices.
C5_Witness ==
    /\ Returned
    /\ Len(suggestion.rows) >= 3
    /\ \A l \in {"low", "medium", "high"} : AtLevel(l).outcome = "returned"
    /\ RatLT(AtLevel("low").response.suggested_price,
             AtLevel("medium").response.suggested_price)
    /\ RatLT(AtLevel("medium").response.suggested_price,
             AtLevel("high").response.suggested_price)

\* C6: for unit_cost > 0 and a non-empty historical price list the returned
\* profit_margin is at least the target_profit_margin passed.
C6_MinimumMarginMaintained ==
    (/\ Returned
     /\ suggestion.rows # <<>>
     /\ RatLT(RatInt(0), Request.unit_cost)
     /\ ~IsNone(Request.target_profit_margin))
    => RatLE(RatInt(Val(Request.target_profit_margin)), Response.profit_margin)

----------------------------------------------------------------------------
(* Properties of analyze_risk, stated on an invocation that has scored the *)
(* factors (pc = "computed": the response is built, the write-back pending).*)

Computed(p) == analysis[p].pc = "computed"

FactorResults(p) == analysis[p].result.response.factors

\* The overall score before rounding, as handed to update_risk_analysis.
OverallOf(p) == analysis[p].result.update.risk_score

\* The level the threshold table of the specification gives a score.
LevelIs(score, level) ==
    /\ level = "low" <=> RatLT(score, RatInt(25))
    /\ level = "medium" <=> (RatLE(RatInt(25), score) /\ RatLT(score, RatInt(50)))
    /\ level = "high" <=> (RatLE(RatInt(50), score) /\ RatLT(score, RatInt(75)))
    /\ level = "critical" <=> RatLE(RatInt(75), score)

\* C7: _determine_risk_level is the threshold function: LOW exactly below 25,
\* MEDIUM exactly on [25, 50), HIGH exactly on [50, 75), CRITICAL exactly from
\* 75 up; it is applied to every factor score and to the overall score.
C7_RiskLevelThresholds ==
    \A p \in Procs : Computed(p) =>
        /\ \A i \in DOMAIN FactorResults(p) :
              LevelIs(FactorResults(p)[i].score, FactorResults(p)[i].level)
        /\ LevelIs(OverallOf(p), analysis[p].result.update.risk_level)

\* C7 witness: an overall score of exactly 75 rated CRITICAL beside a factor
\* score of exactly 50 rated HIGH.
C7_Witness ==
    \E p \in Procs :
        /\ Computed(p)
        /\ RatEq(OverallOf(p), RatInt(75))
        /\ analysis[p].result.update.risk_level = "critical"
        /\ \E i \in DOMAIN FactorResults(p) :
              /\ RatEq(FactorResults(p)[i].score, RatInt(50))
              /\ FactorResults(p)[i].level = "high"

\* Sums over the factor results, as integers-over-a-common-denominator free
\* rationals: sum of weights and sum of score * weight of the first n results.
RECURSIVE C8_WeightSum(_, _)
C8_WeightSum(results, n) ==
    IF n = 0 THEN RatInt(0)
    ELSE RatAdd(C8_WeightSum(results, n - 1), results[n].weight)

RECURSIVE C8_ScoreWeightSum(_, _)
C8_ScoreWeightSum(results, n) ==
    IF n = 0 THEN RatInt(0)
    ELSE RatAdd(C8_ScoreWeightSum(results, n - 1),
                RatMul(results[n].score, results[n].weight))

\* C8: the overall risk score is sum(score_i * weight_i) / sum(weight_i) when
\* the total weight is positive and 0 when the total weight is 0.
C8_WeightedAverage ==
    \A p \in Procs : Computed(p) =>
        LET results == FactorResults(p)
            weights == C8_WeightSum(results, Len(results))
            weighted == C8_ScoreWeightSum(results, Len(results))
        IN  /\ RatLT(RatInt(0), weights) =>
                  RatEq(RatMul(OverallOf(p), weights), weighted)
            /\ RatEq(weights, RatInt(0)) => RatEq(OverallOf(p), RatInt(0))

\* C8 witness: scores [0, 100] with weights [1, 2] give 200/3.
C8_Witness ==
    \E p \in Procs :
        /\ Computed(p)
        /\ Len(FactorResults(p)) = 2
        /\ \E i, j \in DOMAIN FactorResults(p) :
              /\ RatEq(FactorResults(p)[i].score, RatInt(100))
              /\ RatEq(FactorResults(p)[i].weight, RatInt(2))
              /\ RatEq(FactorResults(p)[j].score, RatInt(0))
              /\ RatEq(FactorResults(p)[j].weight, RatInt(1))
        /\ OverallOf(p) = Rat(200, 3)

InRange0To100(score) == RatLE(RatInt(0), score) /\ RatLE(score, RatInt(100))

\* C9: every factor result has a score in [0, 100], whatever the factor name,
\* the quotation and the parameters; with positive weights the overall score
\* is in [0, 100] too.
C9_ScoresInRange ==
    \A p \in Procs : Computed(p) =>
        /\ \A i \in DOMAIN FactorResults(p) : InRange0To100(FactorResults(p)[i].score)
        /\ (\A i \in DOMAIN FactorResults(p) :
                RatLT(RatInt(0), FactorResults(p)[i].weight))
            => InRange0To100(OverallOf(p))

\* C9 witness: an interpolated "Profit Margin" score strictly inside the range
\* beside a factor of an unrecognized name, all weights positive.
C9_Witness ==
    \E p \in Procs :
        /\ Computed(p)
        /\ \A i \in DOMAIN FactorResults(p) :
              RatLT(RatInt(0), FactorResults(p)[i].weight)
        /\ \E i, j \in DOMAIN FactorResults(p) :
              /\ FactorResults(p)[i].description = "below_target"
              /\ RatLT(RatInt(40), FactorResults(p)[i].score)
              /\ RatLT(FactorResults(p)[i].score, RatInt(100))
              /\ FactorResults(p)[j].name = "Market Volatility"

\* The "Profit Margin" score of the specification: from the margin a and the
\* factor's parameters m (min_acceptable_margin) and t (target_margin) alone.
C10_Score(a, m, t) ==
    IF RatLT(a, m) THEN RatInt(100)
    ELSE IF RatLT(a, t)
        THEN RatSub(RatInt(100),
                    RatMul(RatInt(60), RatDiv(RatSub(a, m), RatSub(t, m))))
    ELSE RatInt(0)

\* C10: the "Profit Margin" score is 100 if a < m, 100 - 60 (a - m) / (t - m)
\* if m <= a < t, and 0 otherwise, where a is the quotation's
\* profit_margin_percentage and m, t are the factor's parameters.
C10_ProfitMarginByParameters ==
    \A p \in Procs : Computed(p) =>
        \A i \in DOMAIN FactorResults(p) :
            FactorResults(p)[i].name = "Profit Margin" =>
                LET params == Params(analysis[p].factors[i])
                IN  RatEq(FactorResults(p)[i].score,
                          C10_Score(profit_margin_percentage(analysis[p].quotation),
                                    DictGet(params, "min_acceptable_margin", RatInt(15)),
                                    DictGet(params, "target_margin", RatInt(30))))

\* The quotation's margin and the factor's parameters, for the i-th factor of
\* an invocation that has scored its factors.
MarginOf(p) == profit_margin_percentage(analysis[p].quotation)

MinAcceptableOf(p, i) ==
    DictGet(Params(analysis[p].factors[i]), "min_acceptable_margin", RatInt(15))

TargetParamOf(p, i) ==
    DictGet(Params(analysis[p].factors[i]), "target_margin", RatInt(30))

IsProfitMargin(p, i) == FactorResults(p)[i].name = "Profit Margin"

\* C11: a quotation whose profit_margin_percentage is at or below the "Profit
\* Margin" factor's min_acceptable_margin gets a "Profit Margin" score of
\* exactly 100.
C11_AtOrBelowMinimumScores100 ==
    \A p \in Procs : Computed(p) =>
        \A i \in DOMAIN FactorResults(p) :
            (IsProfitMargin(p, i) /\ RatLE(MarginOf(p), MinAcceptableOf(p, i)))
            => RatEq(FactorResults(p)[i].score, RatInt(100))

\* The case of C12: parameters 15 and 30, margin 22.5.
C12_Midpoint(p, i) ==
    /\ IsProfitMargin(p, i)
    /\ RatEq(MinAcceptableOf(p, i), RatInt(15))
    /\ RatEq(TargetParamOf(p, i), RatInt(30))
    /\ RatEq(MarginOf(p), Rat(45, 2))

\* C12 as stated: with parameters 15 and 30, the margin 22.5 scores 60.
C12_MidpointScores60 ==
    \A p \in Procs : Computed(p) =>
        \A i \in DOMAIN FactorResults(p) :
            C12_Midpoint(p, i) => RatEq(FactorResults(p)[i].score, RatInt(60))

\* C12, amended: with parameters 15 and 30 and a quotation whose own
\* target_profit_margin is 30 or unset, the margin 22.5 scores 70, which is
\* 100 - 0.5 * 60.
C12_MidpointScores70 ==
    \A p \in Procs : Computed(p) =>
        \A i \in DOMAIN FactorResults(p) :
            (/\ C12_Midpoint(p, i)
             /\ OrDefault(analysis[p].quotation.target_profit_margin, 30) = 30)
            => RatEq(FactorResults(p)[i].score, RatInt(70))

\* C12 witness: a quotation of margin 22.5 without a target of its own, scored
\* 70 by the factor with parameters 15 and 30.
C12_Witness ==
    \E p \in Procs :
        /\ Computed(p)
        /\ IsNone(analysis[p].quotation.target_profit_margin)
        /\ \E i \in DOMAIN FactorResults(p) :
              /\ C12_Midpoint(p, i)
              /\ FactorResults(p)[i].score = RatInt(70)

\* The items of a quotation that have market_average_price set, and those of
\* them priced within 5 % of it.
C13_WithMarketPrice(items) ==
    {i \in DOMAIN items : ~IsNone(items[i].market_average_price)}

C13_Competitive(items) ==
    {i \in C13_WithMarketPrice(items) :
        RatLE(items[i].unit_price,
              RatMul(Val(items[i].market_average_price), Rat(105, 100)))}

C13_Score(items) ==
    IF C13_WithMarketPrice(items) = {} THEN RatInt(50)
    ELSE RatSub(RatInt(100),
                Rat(100 * Cardinality(C13_Competitive(items)),
                    Cardinality(C13_WithMarketPrice(items))))

\* C13: the "Price Competitiveness" score is 50 when no item has
\* market_average_price set (a quotation without items included), and
\* otherwise 100 - 100 c / n, n the number of items with market_average_price
\* set and c the number of those with unit_price <= market_average_price * 1.05.
C13_PriceCompetitivenessScore ==
    \A p \in Procs : Computed(p) =>
        \A i \in DOMAIN FactorResults(p) :
            FactorResults(p)[i].name = "Price Competitiveness" =>
                RatEq(FactorResults(p)[i].score,
                      C13_Score(analysis[p].quotation.items))

C14_Keywords ==
    {<<"u", "r", "g", "e", "n", "t">>,
     <<"r", "u", "s", "h">>,
     <<"i", "m", "m", "e", "d", "i", "a", "t", "e">>,
     <<"a", "s", "a", "p">>,
     <<"e", "x", "p", "r", "e", "s", "s">>}

\* Some keyword occurs in the text at some offset, letter case ignored.
C14_HasKeyword(text) ==
    \E keyword \in C14_Keywords :
        \E offset \in 0..(Len(text) - Len(keyword)) :
            \A j \in 1..Len(keyword) : LowerChar(text[offset + j]) = keyword[j]

\* Absent delivery terms: None, or the empty string.
C14_Absent(delivery_terms) == IsNone(delivery_terms) \/ Val(delivery_terms) = <<>>

\* C14: the "Delivery Timeline" score is 80 when delivery_terms contains one of
\* urgent, rush, immediate, asap, express as a case-insensitive substring, 20
\* when delivery_terms is present and contains none of them, and 50 when
\* delivery_terms is absent.
C14_DeliveryTimelineScore ==
    \A p \in Procs : Computed(p) =>
        \A i \in DOMAIN FactorResults(p) :
            FactorResults(p)[i].name = "Delivery Timeline" =>
                LET delivery_terms == analysis[p].quotation.delivery_terms
                IN  RatEq(FactorResults(p)[i].score,
                          IF C14_Absent(delivery_terms) THEN RatInt(50)
                          ELSE IF C14_HasKeyword(Val(delivery_terms)) THEN RatInt(80)
                          ELSE RatInt(20))

\* C14 witness: terms that spell the keyword in capitals are scored 80.
C14_Witness ==
    \E p \in Procs :
        /\ Computed(p)
        /\ analysis[p].quotation.delivery_terms = Some(TermsUrgent)
        /\ \E i \in DOMAIN FactorResults(p) :
              /\ FactorResults(p)[i].name = "Delivery Timeline"
              /\ FactorResults(p)[i].score = RatInt(80)

\* The specific recommendation of a factor name: emitted when a factor result
\* of that name has a score above 50.
C15_Specific(results, name, kind) ==
    IF \E i \in DOMAIN results :
            results[i].name = name /\ RatLT(RatInt(50), results[i].score)
    THEN <<Recommendation(kind)>>
    ELSE <<>>

\* The names of the factor results rated HIGH or CRITICAL, in result order.
RECURSIVE C15_HighNames(_)
C15_HighNames(results) ==
    IF results = <<>> THEN <<>>
    ELSE (IF Head(results).level \in {"high", "critical"}
          THEN <<Head(results).name>> ELSE <<>>)
         \o C15_HighNames(Tail(results))

C15_Expected(results) ==
    C15_Specific(results, "Profit Margin", "increase_prices_or_reduce_costs")
    \o C15_Specific(results, "Price Competitiveness", "review_pricing_strategy")
    \o C15_Specific(results, "Customer Payment History", "review_payment_history")
    \o C15_Specific(results, "Delivery Timeline", "rush_delivery_resources")
    \o (IF C15_HighNames(results) # <<>>
        THEN <<[kind |-> "review_high_risk_factors",
                names |-> C15_HighNames(results)]>>
        ELSE <<>>)

\* C15: the recommendations are the specific recommendation of each of the
\* four named factors present with a score above 50, in the order Profit
\* Margin, Price Competitiveness, Customer Payment History, Delivery
\* Timeline, followed by the catch-all recommendation, which lists the names
\* of the factors rated HIGH or CRITICAL, exactly when there is such a factor.
C15_Recommendations ==
    \A p \in Procs : Computed(p) =>
        analysis[p].result.response.recommendations = C15_Expected(FactorResults(p))

\* C15 witness: two specific recommendations followed by the catch-all one
\* naming both factors.
C15_Witness ==
    \E p \in Procs :
        /\ Computed(p)
        /\ LET recommendations == analysis[p].result.response.recommendations
           IN  /\ Len(recommendations) = 3
               /\ recommendations[1].kind = "increase_prices_or_reduce_costs"
               /\ recommendations[2].kind = "review_pricing_strategy"
               /\ recommendations[3].kind = "review_high_risk_factors"
               /\ Len(recommendations[3].names) = 2

----------------------------------------------------------------------------
(* Properties of the responses analyze_risk returns (pc = "returned").     *)

ReturnedAnalysis(p) == analysis[p].pc = "returned"

\* C16: on an existing quotation, with no risk factor configured,
\* analyze_risk returns overall_risk_score 0, risk_level LOW, no factors and
\* exactly one recommendation, the one saying that no risk factors are
\* defined, whatever the quotation holds.
C16_NoFactorsResponse ==
    \A p \in Procs :
        (ReturnedAnalysis(p) /\ analysis[p].found /\ analysis[p].factors = <<>>)
        => LET response == analysis[p].response
           IN  /\ response.quotation_id = analysis[p].quotation_id
               /\ RatEq(response.overall_risk_score, RatInt(0))
               /\ response.risk_level = "low"
               /\ response.factors = <<>>
               /\ Len(response.recommendations) = 1
               /\ response.recommendations[1].kind = "no_risk_factors_defined"

\* C16 witness: the call returned for a quotation that has items, with no
\* risk factor configured.
C16_Witness ==
    \E p \in Procs :
        /\ ReturnedAnalysis(p) /\ analysis[p].found /\ analysis[p].factors = <<>>
        /\ risk_factors = <<>>
        /\ quotations[analysis[p].quotation_id].exists
        /\ Len(quotations[analysis[p].quotation_id].items) = MaxItems

\* C17: for a quotation_id under which no quotation exists analyze_risk
\* returns (it raises nothing) overall_risk_score 0, risk_level LOW, no
\* factors and no recommendations, and has loaded no risk factors.
C17_NotFoundResponse ==
    \A p \in Procs :
        (ReturnedAnalysis(p) /\ ~analysis[p].found)
        => LET response == analysis[p].response
           IN  /\ response.quotation_id = analysis[p].quotation_id
               /\ RatEq(response.overall_risk_score, RatInt(0))
               /\ response.risk_level = "low"
               /\ response.factors = <<>>
               /\ response.recommendations = <<>>
               /\ analysis[p].factors = <<>>
               /\ ~analysis[p].wrote

\* C17 witness: the call returned for the id of a deleted quotation while
\* risk factors are configured.
C17_Witness ==
    \E p \in Procs :
        /\ ReturnedAnalysis(p) /\ ~analysis[p].found
        /\ quotations[analysis[p].quotation_id] = DeletedRow
        /\ risk_factors # <<>>

C18_RecognizedNames ==
    {"Profit Margin", "Price Competitiveness", "Customer Payment History",
     "Delivery Timeline"}

\* C18: analyze_risk returns one factor result per configured risk factor, in
\* the order the factors were loaded; a factor of an unrecognized name gets
\* score 0 and level LOW, and its weight counts in the denominator of the
\* weighted average.
C18_OneResultPerFactor ==
    \A p \in Procs : Computed(p) =>
        LET results == FactorResults(p)
            factors == analysis[p].factors
            weights == C8_WeightSum(factors, Len(factors))
        IN  /\ Len(results) = Len(factors)
            /\ \A i \in DOMAIN factors :
                  /\ results[i].factor_id = factors[i].id
                  /\ results[i].name = factors[i].name
                  /\ results[i].weight = factors[i].weight
                  /\ factors[i].name \notin C18_RecognizedNames =>
                        /\ RatEq(results[i].score, RatInt(0))
                        /\ results[i].level = "low"
            /\ RatLT(RatInt(0), weights) =>
                  RatEq(RatMul(OverallOf(p), weights),
                        C8_ScoreWeightSum(results, Len(results)))

\* C18 witness: the factor created second is loaded first (the repository
\* orders by name) and has an unrecognized name; its weight 1 halves the
\* other factor's score of 100.
C18_Witness ==
    \E p \in Procs :
        /\ Computed(p)
        /\ Len(analysis[p].factors) = 2
        /\ analysis[p].factors[1].id = 2
        /\ FactorResults(p)[1].name = "Market Volatility"
        /\ FactorResults(p)[1].factor_id = 2
        /\ FactorResults(p)[2].score = RatInt(100)
        /\ FactorResults(p)[2].weight = RatInt(1)
        /\ OverallOf(p) = RatInt(50)

----------------------------------------------------------------------------
(* Further properties of suggest_price over a non-empty historical list.   *)

\* The historical prices the repository returned for the client's request.
PricePoints == [i \in DOMAIN suggestion.rows |-> suggestion.rows[i].unit_price]

C19_Reverse(s) == [i \in DOMAIN s |-> s[Len(s) + 1 - i]]

\* floor(n * p): p is 1/4 for "low", 3/4 for "high", 1/2 for any other level
C19_FloorRank(n, competitive_level) ==
    IF competitive_level = "low" THEN n \div 4
    ELSE IF competitive_level = "high" THEN (3 * n) \div 4
    ELSE n \div 2

\* max(sorted_prices[min(floor(n * p), n - 1)], unit_cost * (1 + margin / 100))
C19_Price(price_points, unit_cost, margin, competitive_level) ==
    LET n == Len(price_points)
        rank == C19_FloorRank(n, competitive_level)
        index == IF rank < n - 1 THEN rank ELSE n - 1
    IN  RatMax(Sorted(price_points)[index + 1], MarginFloor(unit_cost, margin))

\* C19: over a non-empty historical price list of length n the price before
\* rounding is max(sorted_prices[min(floor(n p), n - 1)],
\* unit_cost (1 + target_profit_margin / 100)), p being 0.25 for "low", 0.75
\* for "high" and 0.5 for every other level, whatever the order the prices
\* are supplied in.
C19_PercentilePrice ==
    (suggestion.called /\ suggestion.rows # <<>>
        /\ ~IsNone(Request.target_profit_margin))
    => /\ RatEq(RawAtLevel(Request.competitive_level),
                C19_Price(PricePoints, Request.unit_cost,
                          Val(Request.target_profit_margin),
                          Request.competitive_level))
       /\ RatEq(RawAtLevel(Request.competitive_level),
                SuggestedPrice(C19_Reverse(PricePoints), Request.unit_cost,
                               Request.target_profit_margin,
                               Request.competitive_level))

\* C20: with historical data, the explanation says that the price was
\* adjusted upward for margin protection exactly when the price of the
\* selected percentile is below unit_cost (1 + target_profit_margin / 100).
C20_AdjustedExactlyWhenFloored ==
    (Returned /\ suggestion.rows # <<>> /\ ~IsNone(Request.target_profit_margin))
    => (Response.explanation.adjusted
        <=> RatLT(TargetPrice(PricePoints, Request.competitive_level),
                  MarginFloor(Request.unit_cost,
                              Val(Request.target_profit_margin))))

----------------------------------------------------------------------------
(* Properties of the write-back of analyze_risk and of repeated analyses.  *)

\* The invocation ran to the write-back: the quotation was found and risk
\* factors were configured.
Analyzed(p) ==
    ReturnedAnalysis(p) /\ analysis[p].found /\ analysis[p].factors # <<>>

StoredRow(p) == quotations[analysis[p].quotation_id]

\* C21: when analyze_risk completes on an existing quotation with at least
\* one risk factor it has written back, and the stored risk_score and
\* risk_level equal the overall_risk_score and risk_level it returned, and
\* the stored risk_factors holds the factors and recommendations it returned.
C21_StoredEqualsReturned ==
    \A p \in Procs : (Analyzed(p) /\ StoredRow(p).exists) =>
        /\ analysis[p].wrote
        /\ StoredRow(p).risk_score = Some(analysis[p].response.overall_risk_score)
        /\ StoredRow(p).risk_level = Some(analysis[p].response.risk_level)
        /\ StoredRow(p).risk_factors =
                Some([factors |-> analysis[p].response.factors,
                      recommendations |-> analysis[p].response.recommendations])

\* The quotation an invocation loaded carries an earlier analysis, made with
\* the risk factors the invocation loaded.
C22_AnalyzedBefore(p) ==
    /\ ~IsNone(analysis[p].quotation.risk_factors)
    /\ Len(Val(analysis[p].quotation.risk_factors).factors) = Len(analysis[p].factors)

\* C22: a second analyze_risk on the same quotation with the same risk
\* factors computes the overall score, level, factors and recommendations the
\* first one stored and returned, and its write-back leaves the row as the
\* first one left it.
C22_Idempotent ==
    \A p \in Procs :
        /\ (Computed(p) /\ C22_AnalyzedBefore(p)) =>
              /\ analysis[p].result.update =
                    [risk_score |-> Val(analysis[p].quotation.risk_score),
                     risk_level |-> Val(analysis[p].quotation.risk_level),
                     risk_factors |-> Val(analysis[p].quotation.risk_factors)]
              /\ analysis[p].result.response.overall_risk_score =
                    Round1(Val(analysis[p].quotation.risk_score))
              /\ analysis[p].result.response.factors =
                    Val(analysis[p].quotation.risk_factors).factors
        /\ (Analyzed(p) /\ analysis[p].wrote /\ StoredRow(p).exists
                /\ C22_AnalyzedBefore(p)) =>
              StoredRow(p) = analysis[p].quotation

\* C22 witness: the second analysis has written back over a first one that
\* scored two factors.
C22_Witness ==
    \E p \in Procs :
        /\ Analyzed(p) /\ analysis[p].wrote /\ StoredRow(p).exists
        /\ C22_AnalyzedBefore(p)
        /\ Len(analysis[p].factors) = 2
        /\ RatLT(RatInt(0), analysis[p].response.overall_risk_score)

\* C26: in every result analyze_risk returns, risk_level is the level the
\* thresholds give the overall_risk_score returned.
C26_ResponseSelfConsistent ==
    \A p \in Procs : ReturnedAnalysis(p) =>
        LevelIs(analysis[p].response.overall_risk_score,
                analysis[p].response.risk_level)

C27_Specific ==
    {<<"Profit Margin", "increase_prices_or_reduce_costs">>,
     <<"Price Competitiveness", "review_pricing_strategy">>,
     <<"Customer Payment History", "review_payment_history">>,
     <<"Delivery Timeline", "rush_delivery_resources">>}

C27_Kinds(recommendations) ==
    {recommendations[i].kind : i \in DOMAIN recommendations}

\* The catch-all recommendation comes last and names the factor.
C27_CatchAllNames(recommendations, name) ==
    /\ recommendations # <<>>
    /\ LET last == recommendations[Len(recommendations)]
       IN  /\ last.kind = "review_high_risk_factors"
           /\ \E i \in DOMAIN last.names : last.names[i] = name

\* C27: the recommendations are empty exactly when every factor score is
\* below 50; whenever the specific recommendation of a factor is emitted, the
\* catch-all recommendation is emitted too and names that factor.
C27_RecommendationsAndScores ==
    \A p \in Procs : Computed(p) =>
        LET results == FactorResults(p)
            recommendations == analysis[p].result.response.recommendations
        IN  /\ recommendations = <<>> <=>
                  \A i \in DOMAIN results : RatLT(results[i].score, RatInt(50))
            /\ \A pair \in C27_Specific :
                  pair[2] \in C27_Kinds(recommendations) =>
                      C27_CatchAllNames(recommendations, pair[1])

\* C27 witness: two factors, one of them with a positive score, both below
\* 50, and no recommendation.
C27_Witness ==
    \E p \in Procs :
        /\ Computed(p)
        /\ Len(FactorResults(p)) = 2
        /\ \E i \in DOMAIN FactorResults(p) :
              RatLT(RatInt(0), FactorResults(p)[i].score)
        /\ analysis[p].result.response.recommendations = <<>>

----------------------------------------------------------------------------
(* Properties of concurrent invocations.                                   *)

\* The three columns the write-back sets.
StoredAnalysis(row) ==
    [risk_score |-> Val(row.risk_score),
     risk_level |-> Val(row.risk_level),
     risk_factors |-> Val(row.risk_factors)]

\* What a lone invocation on the quotation stores, for the risk factors
\* configured at some moment (factors are only ever added).
LoneAnalyses(quotation_id) ==
    {AnalysisOf(quotation_id, quotations[quotation_id],
                get_all_risk_factors(SubSeq(risk_factors, 1, k))).update :
        k \in 1..Len(risk_factors)}

C23_StoredIsLoneAnalysis ==
    \A q \in DOMAIN quotations :
        (quotations[q].exists /\ ~IsNone(quotations[q].risk_factors)) =>
            StoredAnalysis(quotations[q]) \in LoneAnalyses(q)

C23_WriteBackFrame ==
    \A p \in DOMAIN analysis :
        (analysis[p].pc = "computed" /\ analysis'[p].pc = "returned") =>
            \A q \in DOMAIN quotations :
                q # analysis[p].quotation_id => quotations'[q] = quotations[q]

\* C23: when concurrent analyze_risk invocations work on two different
\* quotations, the write-back of one never changes the other quotation, and
\* every quotation holds the values a lone invocation on it stores.
C23_DifferentQuotationsIndependent ==
    [][C23_WriteBackFrame]_vars /\ []C23_StoredIsLoneAnalysis

\* C23 witness: both invocations have written back while the other was in
\* flight, and the two quotations hold different scores.
C23_Witness ==
    /\ \A p \in DOMAIN analysis : Analyzed(p) /\ analysis[p].wrote
    /\ DOMAIN analysis = Workers
    /\ analysis[1].quotation_id # analysis[2].quotation_id
    /\ quotations[1].exists /\ quotations[2].exists
    /\ quotations[1].risk_score # quotations[2].risk_score
    /\ analysis[1].quotation.risk_score = None
    /\ analysis[2].quotation.risk_score = None

\* C24: the write-back of an analyze_risk invocation leaves in the row the
\* risk_score, risk_level and risk_factors of that invocation, so that after
\* two concurrent invocations on one quotation all three are those of the
\* invocation that wrote last.
C24_LastWriteBackWins ==
    [][\A p \in DOMAIN analysis :
          (analysis[p].pc = "computed" /\ analysis'[p].pc = "returned"
              /\ analysis'[p].wrote) =>
                StoredAnalysis(quotations'[analysis[p].quotation_id]) =
                    analysis[p].result.update]_vars

\* The invocation of p returns in this step without having reached the
\* write-back: the quotation was not found, or no risk factor is configured.
C29_TerminalBranch(p) ==
    /\ analysis[p].pc \in {"idle", "loaded"}
    /\ analysis'[p].pc = "returned"

\* C29: on both terminal branches of analyze_risk, quotation not found and
\* no risk factors configured, nothing is written back: the stored
\* risk_score, risk_level and risk_factors of every quotation stay as they
\* were, values left by an earlier analysis included.
C29_TerminalBranchesWriteNothing ==
    [][\A p \in DOMAIN analysis : C29_TerminalBranch(p) =>
          /\ ~analysis'[p].wrote
          /\ quotations' = quotations]_vars

\* C29 witness: an invocation returned on the not-found branch while another
\* quotation holds the result of an earlier analysis, untouched.
C29_Witness ==
    \E p \in DOMAIN analysis :
        /\ ReturnedAnalysis(p) /\ ~analysis[p].found
        /\ \E q \in DOMAIN quotations :
              /\ quotations[q].exists
              /\ ~IsNone(quotations[q].risk_score)
              /\ StoredAnalysis(quotations[q]) \in LoneAnalyses(q)

----------------------------------------------------------------------------
(* The records suggest_price works on.                                     *)

\* Every record of the table that matches the request's item name and was
\* recorded in the lookback window.
C25_AllMatching ==
    get_historical_prices(historical_prices, Request.item_name, LookbackDays,
                          Len(historical_prices))

C25_Prices(rows) == List([i \in DOMAIN rows |-> rows[i].unit_price])

C25_StatisticsOf(price_points) ==
    /\ Response.historical_min = Some(Round2(MinOf(price_points)))
    /\ Response.historical_max = Some(Round2(MaxOf(price_points)))
    /\ Response.historical_avg = Some(Round2(Mean(price_points)))

C25_WorksOn(rows) ==
    rows # <<>> => (suggestion.rows = rows /\ C25_StatisticsOf(C25_Prices(rows)))

\* C25: suggest_price works on all the historical price records that match
\* the item and fall in the last 365 days, however many there are:
\* historical_min, historical_max and historical_avg are those of all of
\* them.
C25_AllMatchingRecordsUsed == Returned => C25_WorksOn(C25_AllMatching)

=============================================================================
